---- MODULE Spec2Model ----
(***************************************************************************)
(* Approval workflow of acquisition-lifecycle-lite                         *)
(* (backend/app/services/workflow.py): template selection, submission,     *)
(* step materialisation and the approve / reject / return transitions.     *)
(***************************************************************************)
EXTENDS Integers, Sequences, FiniteSets, TLC

\* ------------------------------------------------------------------ bounds
MaxSteps == 3        \* longest template drawn in Init
MaxSubmits == 2      \* submit_request calls that reach the step generator

\* --------------------------------------------------------------- universe
None == "None"
RequestIds == {1}
UnknownRequestId == 99
TemplateKeys == {None, "APPR-FULL", "APPR-KO-ONLY", "APPR-UNKNOWN"}
ApprovalActions == {"approve", "reject", "return"}
ActionInputs == ApprovalActions \cup {"escalate"}
\* derived classification of the request: <<derived_pipeline, derived_tier>>
Classifications == {<<"full", "major">>, <<"ko_only", "micro">>, <<None, "micro">>}

NoTemplate == 0
NoStep == 0
NoDue == -1
DefaultSla == 5

\* ------------------------------------------------- condition rules (JSON)
NoRule == [type |-> "none", keys |-> {}]

Cmp(f, op) == [type |-> "object", keys |-> {"field", "operator"},
               field |-> f, operator |-> op]

CmpValue(f, op, v) == [type |-> "object", keys |-> {"field", "operator", "value"},
                       field |-> f, operator |-> op, value |-> v]

CmpValues(f, op, vs) == [type |-> "object", keys |-> {"field", "operator", "values"},
                         field |-> f, operator |-> op, values |-> vs]

AllOf(ms) == [type |-> "object", keys |-> {"allOf"}, allOf |-> ms]

AnyOf(ms) == [type |-> "object", keys |-> {"anyOf"}, anyOf |-> ms]

\* getattr(request, field, None)
getattr(request, field) ==
    IF field \in DOMAIN request THEN request[field] ELSE None

eval_single(condition, request) ==
    LET field == IF "field" \in condition.keys THEN condition.field ELSE None
        operator == IF "operator" \in condition.keys THEN condition.operator ELSE None
        value == getattr(request, field)
    IN  IF field = None \/ operator = None THEN TRUE
        ELSE IF operator = "in"
             THEN value \in (IF "values" \in condition.keys THEN condition.values ELSE {})
        ELSE IF operator = "not_in"
             THEN value \notin (IF "values" \in condition.keys THEN condition.values ELSE {})
        ELSE IF operator = "=="
             THEN value = (IF "value" \in condition.keys THEN condition.value ELSE None)
        ELSE IF operator = "!="
             THEN value # (IF "value" \in condition.keys THEN condition.value ELSE None)
        ELSE IF operator = "exists" THEN value # None
        ELSE TRUE

\* stored values that are not a JSON object: text json.loads rejects, and the
\* JSON values null, number, string and list
NotJson == [type |-> "text", keys |-> {}]
JsonNull == [type |-> "null", keys |-> {}]
JsonNumber == [type |-> "number", keys |-> {}]
JsonString == [type |-> "string", keys |-> {}]
JsonList == [type |-> "list", keys |-> {}]

\* the decoded value is no dict: "'allOf' in conditions" raises TypeError on
\* None and on a number, condition.get raises AttributeError on a str and on
\* a list; neither is caught
condition_raises(conditions) ==
    conditions.type \in {"null", "number", "string", "list"}

evaluate_step_condition(conditions, request) ==
    IF conditions.type = "text" THEN TRUE
    ELSE IF "allOf" \in conditions.keys
    THEN \A i \in DOMAIN conditions.allOf : eval_single(conditions.allOf[i], request)
    ELSE IF "anyOf" \in conditions.keys
    THEN \E i \in DOMAIN conditions.anyOf : eval_single(conditions.anyOf[i], request)
    ELSE eval_single(conditions, request)

\* ---------------------------------------------------------- rule tables
ApprovalTemplates ==
    << [template_key |-> "APPR-FULL", name |-> "Full Pipeline", pipeline_type |-> "full"],
       [template_key |-> "APPR-KO-ONLY", name |-> "KO-Only Pipeline", pipeline_type |-> "ko_only"] >>

TStep(name, role, sla, enabled, conditional, rule) ==
    [step_name |-> name, approver_role |-> role, sla_days |-> sla,
     is_enabled |-> enabled, is_conditional |-> conditional, condition_rule |-> rule]

StepCatalog ==
    { TStep("ISS", "branch_chief", 5, TRUE, FALSE, NoRule),
      TStep("Finance", "budget", 3, FALSE, FALSE, NoRule),
      TStep("Legal Review", "legal", 4, TRUE, TRUE,
            CmpValues("derived_tier", "in", {"major"})),
      TStep("Custom Gate", "cio", 2, TRUE, TRUE,
            AllOf(<< CmpValue("derived_tier", "!=", "major"),
                     Cmp("derived_pipeline", "exists") >>)) }

Numbered(ts, n) ==
    [step_number |-> n, step_name |-> ts.step_name, approver_role |-> ts.approver_role,
     sla_days |-> ts.sla_days, is_enabled |-> ts.is_enabled,
     is_conditional |-> ts.is_conditional, condition_rule |-> ts.condition_rule]

KoOnlySteps ==
    << Numbered(TStep("KO Action", "ko", 5, TRUE, FALSE, NoRule), 1) >>

VARIABLES template_steps, requests, steps, nextStepId, log, notifs, last,
          inflight, request_numbers, year,
          advisories, team_status, pipeline_config, trigger_rules

vars == <<template_steps, requests, steps, nextStepId, log, notifs, last,
          inflight, request_numbers, year,
          advisories, team_status, pipeline_config, trigger_rules>>

\* ------------------------------------------------------------- helpers
Min(S) == CHOOSE x \in S : \A y \in S : x <= y

DB == [steps |-> steps, requests |-> requests, nextStepId |-> nextStepId,
       log |-> log, notifs |-> notifs]

\* returned dict: {'error': ...} or {'success': True, ...}; a successful
\* submit_request also reports the selected template and 'steps_created'
Ok == [ok |-> TRUE, error |-> None, template |-> NoTemplate, steps_created |-> 0]

Submitted(template, n) ==
    [ok |-> TRUE, error |-> None, template |-> template, steps_created |-> n]

Err(msg) == [ok |-> FALSE, error |-> msg, template |-> NoTemplate, steps_created |-> 0]

\* the exception _evaluate_step_condition lets through to the caller
ConditionRaised == "condition raised"

StepsOf(st, request_id) == {id \in DOMAIN st : st[id].request_id = request_id}

ActiveStepsOf(st, request_id) == {id \in StepsOf(st, request_id) : st[id].status = "active"}

\* .order_by(ApprovalTemplateStep.step_number): stable sort of the table rows
RECURSIVE order_by_step_number(_)
order_by_step_number(rows) ==
    IF Len(rows) = 0 THEN << >>
    ELSE LET m == Min({rows[i].step_number : i \in DOMAIN rows})
             k == Min({i \in DOMAIN rows : rows[i].step_number = m})
             rest == [j \in 1..(Len(rows) - 1) |-> IF j < k THEN rows[j] ELSE rows[j + 1]]
         IN  << rows[k] >> \o order_by_step_number(rest)

\* --------------------------------------------------------- workflow.py
\* variant: falls back to the first (default) template when nothing matches
select_template_or_default(request, template_key) ==
    LET byKey == {t \in DOMAIN ApprovalTemplates :
                     ApprovalTemplates[t].template_key = template_key}
        pipeline == request.derived_pipeline
        byPipeline == {t \in DOMAIN ApprovalTemplates :
                          ApprovalTemplates[t].pipeline_type = pipeline}
    IN  IF template_key # None /\ byKey # {} THEN Min(byKey)
        ELSE IF pipeline # None /\ byPipeline # {} THEN Min(byPipeline)
        ELSE 1

\* variant: the pipeline lookup tried before the key lookup
select_template_pipeline_first(request, template_key) ==
    LET byKey == {t \in DOMAIN ApprovalTemplates :
                     ApprovalTemplates[t].template_key = template_key}
        pipeline == request.derived_pipeline
        byPipeline == {t \in DOMAIN ApprovalTemplates :
                          ApprovalTemplates[t].pipeline_type = pipeline}
    IN  IF pipeline # None /\ byPipeline # {} THEN Min(byPipeline)
        ELSE IF template_key # None /\ byKey # {} THEN Min(byKey)
        ELSE NoTemplate

select_template(request, template_key) ==
    LET byKey == {t \in DOMAIN ApprovalTemplates :
                     ApprovalTemplates[t].template_key = template_key}
        pipeline == request.derived_pipeline
        byPipeline == {t \in DOMAIN ApprovalTemplates :
                          ApprovalTemplates[t].pipeline_type = pipeline}
    IN  IF template_key # None /\ byKey # {} THEN Min(byKey)
        ELSE IF pipeline = None THEN NoTemplate
        ELSE IF byPipeline # {} THEN Min(byPipeline)
        ELSE NoTemplate

\* variant: 'COR Authorization' filed with the other COR steps
step_to_status_cor_grouped(step_name) ==
    CASE step_name \in {"ISS", "ISS Review", "COR Review", "COR Confirmation",
                        "COR + PM Justification", "COR Justification", "PM Approval",
                        "Supervisor", "Supervisor Approval", "COR Authorization"} -> "iss_review"
      [] step_name \in {"ASR", "ASR Review"} -> "asr_review"
      [] step_name \in {"Finance", "Finance Review", "FM Funding Identification",
                        "BM LOA Confirmation", "GPC Purchase", "GPC Holder"} -> "finance_review"
      [] step_name \in {"KO Review", "KO Action", "KO Execution", "KO Determination",
                        "KO Contract Mod"} -> "ko_review"
      [] step_name = "Legal Review" -> "legal_review"
      [] step_name \in {"CIO Approval", "CTO Approval"} -> "cio_approval"
      [] step_name = "Senior Leadership" -> "senior_review"
      [] OTHER -> "submitted"

step_to_status(step_name) ==
    CASE step_name \in {"ISS", "ISS Review", "COR Review", "COR Confirmation",
                        "COR + PM Justification", "COR Justification", "PM Approval",
                        "Supervisor", "Supervisor Approval"} -> "iss_review"
      [] step_name \in {"ASR", "ASR Review"} -> "asr_review"
      [] step_name \in {"Finance", "Finance Review", "FM Funding Identification",
                        "BM LOA Confirmation", "GPC Purchase", "GPC Holder"} -> "finance_review"
      [] step_name \in {"KO Review", "KO Action", "KO Execution", "KO Determination",
                        "KO Contract Mod", "COR Authorization"} -> "ko_review"
      [] step_name = "Legal Review" -> "legal_review"
      [] step_name \in {"CIO Approval", "CTO Approval"} -> "cio_approval"
      [] step_name = "Senior Leadership" -> "senior_review"
      [] OTHER -> "submitted"

get_sla_days(tsteps, template, step_number) ==
    IF template = NoTemplate THEN DefaultSla
    ELSE LET rows == tsteps[template]
             hits == {i \in DOMAIN rows : rows[i].step_number = step_number}
         IN  IF hits # {} THEN rows[Min(hits)].sla_days ELSE DefaultSla

\* variant: order_by(step_number.desc())
find_next_step_highest(st, request_id, current_step_number) ==
    LET cands == {id \in DOMAIN st : /\ st[id].request_id = request_id
                                     /\ st[id].step_number > current_step_number
                                     /\ st[id].status = "pending"}
    IN  IF cands = {} THEN NoStep
        ELSE CHOOSE id \in cands : \A j \in cands : st[j].step_number <= st[id].step_number

\* variant: the status == 'pending' filter left out of the query
find_next_step_any_status(st, request_id, current_step_number) ==
    LET cands == {id \in DOMAIN st : /\ st[id].request_id = request_id
                                     /\ st[id].step_number > current_step_number}
        m == Min({st[id].step_number : id \in cands})
    IN  IF cands = {} THEN NoStep
        ELSE Min({id \in cands : st[id].step_number = m})

find_next_step(st, request_id, current_step_number) ==
    LET cands == {id \in DOMAIN st : /\ st[id].request_id = request_id
                                     /\ st[id].step_number > current_step_number
                                     /\ st[id].status = "pending"}
        m == Min({st[id].step_number : id \in cands})
    IN  IF cands = {} THEN NoStep
        ELSE Min({id \in cands : st[id].step_number = m})

\* the template rows submit_request turns into step instances
steps_to_materialize(tsteps, template) == order_by_step_number(tsteps[template])

\* status given to the instance of one template step
materialized_status(ts, request) ==
    IF /\ ts.is_conditional
       /\ ts.condition_rule.type # "none"
       /\ ~evaluate_step_condition(ts.condition_rule, request)
    THEN "skipped"
    ELSE "pending"

ApprovalStep(request_id, ts, status) ==
    [request_id |-> request_id, step_number |-> ts.step_number,
     step_name |-> ts.step_name, approver_role |-> ts.approver_role,
     status |-> status, due_sla |-> NoDue]

\* variant: 'cancelled' accepted as well
submittable_or_cancelled(status) == status \in {"draft", "returned", "cancelled"}

\* statuses submit_request accepts
submittable(status) == status \in {"draft", "returned"}

\* variant: the activation loop without its break
steps_to_activate_no_break(created) ==
    {i \in DOMAIN created : created[i].status = "pending"}

\* variant: the activation loop never entered
steps_to_activate_none(created) == {}

\* the activation loop: the first 'pending' instance, then break
steps_to_activate(created) ==
    LET pend == {i \in DOMAIN created : created[i].status = "pending"}
    IN  IF pend = {} THEN {} ELSE {Min(pend)}

\* request status after the activation loop of submit_request
status_after_submit(old_status, activated, step_name) ==
    LET s == IF activated THEN step_to_status(step_name) ELSE old_status
    IN  IF s # "draft" THEN s ELSE "submitted"

submit_request(db, tsteps, request_id, template_key) ==
    IF request_id \notin DOMAIN db.requests
    THEN [db |-> db, result |-> Err("Request not found")]
    ELSE LET request == db.requests[request_id] IN
    IF ~submittable(request.status)
    THEN [db |-> db, result |-> Err("Cannot submit request in status")]
    ELSE LET template == select_template(request, template_key) IN
    IF template = NoTemplate
    THEN [db |-> db, result |-> Err("No approval template found for pipeline")]
    ELSE
    IF \E ts \in {tsteps[template][i] : i \in DOMAIN tsteps[template]} :
          ts.is_conditional /\ ts.condition_rule.type # "none"
             /\ condition_raises(ts.condition_rule)
    THEN [db |-> db, result |-> Err(ConditionRaised)]
    ELSE
    LET kept == DOMAIN db.steps \ StepsOf(db.steps, request_id)
        tss == steps_to_materialize(tsteps, template)
        created == [i \in DOMAIN tss |->
                       ApprovalStep(request_id, tss[i], materialized_status(tss[i], request))]
        activate == steps_to_activate(created)
        first == IF activate = {} THEN 0 ELSE Min(activate)
        final == [i \in DOMAIN created |->
                     IF i \in activate
                     THEN [created[i] EXCEPT
                             !.status = "active",
                             !.due_sla = get_sla_days(tsteps, template, created[i].step_number)]
                     ELSE created[i]]
        newIds == {db.nextStepId + i - 1 : i \in DOMAIN created}
        newStatus == status_after_submit(request.status, first # 0,
                                         IF first # 0 THEN created[first].step_name ELSE None)
    IN  [db |->
           [steps |-> [id \in kept \cup newIds |->
                          IF id \in newIds THEN final[id - db.nextStepId + 1]
                          ELSE db.steps[id]],
            requests |-> [db.requests EXCEPT ![request_id].status = newStatus],
            nextStepId |-> db.nextStepId + Len(created),
            log |-> [db.log EXCEPT ![request_id] =
                        Append(@, [activity_type |-> "submitted", new_value |-> None,
                                   description |-> ApprovalTemplates[template].name])],
            notifs |-> IF first = 0 THEN db.notifs
                       ELSE [db.notifs EXCEPT ![request_id] =
                                Append(@, [fn |-> "notify_users_by_role",
                                           target |-> final[first].approver_role,
                                           type |-> "step_activated"])]],
         result |-> Submitted(template, Len(created))]

LogEntry(activity_type, new_value) ==
    [activity_type |-> activity_type, new_value |-> new_value, description |-> None]

RequestorNote(type) ==
    [fn |-> "notify_requestor", target |-> "requestor", type |-> type]

\* variant: the step.status != 'active' check left out
approval_error_unchecked(db, step_id) ==
    IF step_id \notin DOMAIN db.steps THEN "Approval step not found"
    ELSE IF db.steps[step_id].request_id \notin DOMAIN db.requests
         THEN "Associated request not found"
    ELSE None

\* the precondition checks of process_approval: the error it returns, or None
approval_error(db, step_id) ==
    IF step_id \notin DOMAIN db.steps THEN "Approval step not found"
    ELSE IF db.steps[step_id].status # "active" THEN "Step is not active"
    ELSE IF db.steps[step_id].request_id \notin DOMAIN db.requests
         THEN "Associated request not found"
    ELSE None

approve_step(db, tsteps, step_id) ==
    LET step == db.steps[step_id]
        rid == step.request_id
        request == db.requests[rid]
        st1 == [db.steps EXCEPT ![step_id].status = "approved"]
        next_step == find_next_step(st1, rid, step.step_number)
    IN  IF next_step # NoStep
        THEN LET template == select_template(request, None)
                 sla == IF template # NoTemplate
                        THEN get_sla_days(tsteps, template, st1[next_step].step_number)
                        ELSE DefaultSla
                 newStatus == step_to_status(st1[next_step].step_name)
             IN  [db EXCEPT
                    !.steps = [st1 EXCEPT ![next_step].status = "active",
                                          ![next_step].due_sla = sla],
                    !.requests = [@ EXCEPT ![rid].status = newStatus],
                    !.log = [@ EXCEPT ![rid] = Append(@, LogEntry("approved", newStatus))],
                    !.notifs = [@ EXCEPT ![rid] =
                                  Append(@, [fn |-> "notify_users_by_role",
                                             target |-> st1[next_step].approver_role,
                                             type |-> "step_activated"])]]
        ELSE [db EXCEPT
                !.steps = st1,
                !.requests = [@ EXCEPT ![rid].status = "approved"],
                !.log = [@ EXCEPT ![rid] = @ \o << LogEntry("fully_approved", None),
                                                   LogEntry("approved", "approved") >>],
                !.notifs = [@ EXCEPT ![rid] = Append(@, RequestorNote("request_fully_approved"))]]

\* variant: the reject branch written as a copy of the return branch
reject_step_as_return(db, step_id) ==
    LET rid == db.steps[step_id].request_id
    IN  [db EXCEPT
           !.steps = [@ EXCEPT ![step_id].status = "returned"],
           !.requests = [@ EXCEPT ![rid].status = "returned"],
           !.log = [@ EXCEPT ![rid] = Append(@, LogEntry("returned", "returned"))],
           !.notifs = [@ EXCEPT ![rid] = Append(@, RequestorNote("request_returned"))]]

reject_step(db, step_id) ==
    LET rid == db.steps[step_id].request_id
    IN  [db EXCEPT
           !.steps = [@ EXCEPT ![step_id].status = "rejected"],
           !.requests = [@ EXCEPT ![rid].status = "cancelled"],
           !.log = [@ EXCEPT ![rid] = Append(@, LogEntry("rejected", "cancelled"))],
           !.notifs = [@ EXCEPT ![rid] = Append(@, RequestorNote("request_rejected"))]]

\* variant: the return branch without its notify_requestor call
return_step_unnotified(db, step_id) ==
    LET rid == db.steps[step_id].request_id
    IN  [db EXCEPT
           !.steps = [@ EXCEPT ![step_id].status = "returned"],
           !.requests = [@ EXCEPT ![rid].status = "returned"],
           !.log = [@ EXCEPT ![rid] = Append(@, LogEntry("returned", "returned"))]]

return_step(db, step_id) ==
    LET rid == db.steps[step_id].request_id
    IN  [db EXCEPT
           !.steps = [@ EXCEPT ![step_id].status = "returned"],
           !.requests = [@ EXCEPT ![rid].status = "returned"],
           !.log = [@ EXCEPT ![rid] = Append(@, LogEntry("returned", "returned"))],
           !.notifs = [@ EXCEPT ![rid] = Append(@, RequestorNote("request_returned"))]]

process_approval(db, tsteps, step_id, action) ==
    LET e == approval_error(db, step_id)
    IN  IF e # None THEN [db |-> db, result |-> Err(e)]
        ELSE IF action = "approve"
             THEN [db |-> approve_step(db, tsteps, step_id), result |-> Ok]
        ELSE IF action = "reject"
             THEN [db |-> reject_step(db, step_id), result |-> Ok]
        ELSE IF action = "return"
             THEN [db |-> return_step(db, step_id), result |-> Ok]
        ELSE [db |-> db, result |-> Err("Unknown action")]

\* ------------------------------------------------------------ the system
RECURSIVE SeqsUpTo(_, _)
SeqsUpTo(S, n) ==
    IF n = 0 THEN {<< >>}
    ELSE LET shorter == SeqsUpTo(S, n - 1)
         IN  shorter \cup {Append(q, x) : q \in {r \in shorter : Len(r) = n - 1}, x \in S}

FullStepsChoices ==
    {[i \in DOMAIN q |-> Numbered(q[i], i)] : q \in SeqsUpTo(StepCatalog, MaxSteps)}

NewRequest(pipeline, tier) ==
    [status |-> "draft", priority |-> "medium", derived_acquisition_type |-> None,
     derived_pipeline |-> pipeline, derived_tier |-> tier]

\* the most recent call and its outcome; the request and the action of a
\* call are recorded when the call succeeded
Call(op, request_id, action, result) ==
    [op |-> op, request_id |-> IF result.ok THEN request_id ELSE 0,
     action |-> IF result.ok THEN action ELSE None, result |-> result]

NoCall == Call("none", 0, None, Ok)

\* process_approval calls being served at the same time, and where each is:
\* idle, or past its step.status check and before its commit
Callers == {"a", "b"}

Idle == [pc |-> "idle", step_id |-> NoStep, action |-> None]

\* the year datetime.utcnow() reports when the model starts
FirstYear == 2026

\* advisory teams; the first four have a <team>_status column on the request
StatusTeams == {"scrm", "sbo", "cio", "section508"}
AdvisoryTeams == StatusTeams \cup {"fedramp", "fm"}

\* the cells of the pipeline x team matrix the model keeps
ConfigCells == {"full", "ko_only"} \X {"scrm", "fm"}

AdvisoryVars == <<advisories, team_status, pipeline_config, trigger_rules>>

\* no intake completed yet: no AdvisoryInput row, no team status on the
\* request, every matrix cell enabled, an empty AdvisoryTriggerRule table
NoAdvisoryState ==
    /\ advisories = << >>
    /\ team_status = [r \in RequestIds |-> [t \in StatusTeams |-> None]]
    /\ pipeline_config = [c \in ConfigCells |-> TRUE]
    /\ trigger_rules = [available |-> TRUE, rows |-> << >>]

Init ==
    /\ \E full \in FullStepsChoices : template_steps = << full, KoOnlySteps >>
    /\ \E c \in Classifications :
          requests = [r \in RequestIds |-> NewRequest(c[1], c[2])]
    /\ steps = << >>
    /\ nextStepId = 1
    /\ log = [r \in RequestIds |-> << >>]
    /\ notifs = [r \in RequestIds |-> << >>]
    /\ last = NoCall
    /\ inflight = [c \in Callers |-> Idle]
    /\ request_numbers = << >>
    /\ year = FirstYear
    /\ NoAdvisoryState

\* successful submissions so far (each one appends a 'submitted' log entry)
Submissions ==
    Cardinality({e \in UNION {{r} \X DOMAIN log[r] : r \in RequestIds} :
                    log[e[1]][e[2]].activity_type = "submitted"})

Commit(out) ==
    /\ steps' = out.db.steps
    /\ requests' = out.db.requests
    /\ nextStepId' = out.db.nextStepId
    /\ log' = out.db.log
    /\ notifs' = out.db.notifs

Submit(request_id, template_key) ==
    LET out == submit_request(DB, template_steps, request_id, template_key)
    IN  /\ out.result.ok => Submissions < MaxSubmits
        /\ Commit(out)
        /\ last' = Call("submit_request", request_id, None, out.result)
        /\ UNCHANGED <<template_steps, inflight, request_numbers, year, AdvisoryVars>>

ProcessApproval(step_id, action) ==
    LET out == process_approval(DB, template_steps, step_id, action)
    IN  /\ Commit(out)
        /\ last' = Call("process_approval",
                         IF step_id \in DOMAIN steps THEN steps[step_id].request_id ELSE 0,
                         action, out.result)
        /\ UNCHANGED <<template_steps, inflight, request_numbers, year, AdvisoryVars>>

Next ==
    \/ \E r \in RequestIds, k \in TemplateKeys : Submit(r, k)
    \/ Submit(UnknownRequestId, None)
    \/ \E id \in DOMAIN steps \cup {nextStepId}, a \in ActionInputs : ProcessApproval(id, a)

Spec == Init /\ [][Next]_vars

\* ============================================================ properties
Terminal == {"approved", "cancelled"}

StatusesOf(r) == {steps[id].status : id \in StepsOf(steps, r)}

LastOk(op) == last.op = op /\ last.result.ok

\* C1: every request has at most one ApprovalStep with status 'active'.
C1_AtMostOneActive ==
    \A r \in RequestIds : Cardinality(ActiveStepsOf(steps, r)) <= 1

C1_Witness ==
    /\ LastOk("process_approval") /\ last.action = "approve"
    /\ \E r \in RequestIds : /\ Cardinality(ActiveStepsOf(steps, r)) = 1
                             /\ "pending" \in StatusesOf(r)

\* C2: when a request has an active step, every step of that request with a
\* smaller step_number is 'approved' or 'skipped'.
C2_EarlierStepsDone ==
    \A id \in DOMAIN steps :
        steps[id].status = "active" =>
            \A j \in StepsOf(steps, steps[id].request_id) :
                steps[j].step_number < steps[id].step_number
                    => steps[j].status \in {"approved", "skipped"}

C2_Witness ==
    \E id \in DOMAIN steps :
        /\ steps[id].status = "active"
        /\ \E j, k \in StepsOf(steps, steps[id].request_id) :
              /\ steps[j].step_number < steps[id].step_number
              /\ steps[k].step_number < steps[id].step_number
              /\ steps[j].status = "approved"
              /\ steps[k].status = "skipped"

\* C3 as stated: when a request has an active step, every step of that
\* request with a greater step_number is 'pending'.
C3_LaterStepsPending ==
    \A id \in DOMAIN steps :
        steps[id].status = "active" =>
            \A j \in StepsOf(steps, steps[id].request_id) :
                steps[j].step_number > steps[id].step_number
                    => steps[j].status = "pending"

\* C3 amended: when a request has an active step, every step of that request
\* with a greater step_number is 'pending' or 'skipped'.
C3_LaterStepsPendingOrSkipped ==
    \A id \in DOMAIN steps :
        steps[id].status = "active" =>
            \A j \in StepsOf(steps, steps[id].request_id) :
                steps[j].step_number > steps[id].step_number
                    => steps[j].status \in {"pending", "skipped"}

C3_Witness ==
    \E id \in DOMAIN steps :
        /\ steps[id].status = "active"
        /\ \E j, k \in StepsOf(steps, steps[id].request_id) :
              /\ steps[j].step_number > steps[id].step_number
              /\ steps[k].step_number > steps[id].step_number
              /\ steps[j].status = "pending"
              /\ steps[k].status = "skipped"

\* C4 as stated: a submitted request has zero active steps only when its
\* status is 'approved', 'cancelled' or 'returned'; otherwise exactly one of
\* its steps is active.
C4_ActiveUnlessTerminalOrReturned ==
    \A r \in RequestIds :
        requests[r].status # "draft" =>
            \/ requests[r].status \in Terminal \cup {"returned"}
            \/ Cardinality(ActiveStepsOf(steps, r)) = 1

AllSkipped(r) == StatusesOf(r) \subseteq {"skipped"}

\* C4 amended: a submitted request has zero active steps only when its
\* status is 'approved', 'cancelled' or 'returned', or when the submission
\* left no step to activate (every step instance is 'skipped', or there is
\* none) and the status is 'submitted'; otherwise exactly one step is active.
C4_ActiveUnlessTerminalReturnedOrAllSkipped ==
    \A r \in RequestIds :
        requests[r].status # "draft" =>
            \/ requests[r].status \in Terminal \cup {"returned"}
            \/ AllSkipped(r) /\ requests[r].status = "submitted"
            \/ Cardinality(ActiveStepsOf(steps, r)) = 1

C4_Witness ==
    \E r \in RequestIds :
        /\ LastOk("submit_request")
        /\ requests[r].status = "submitted"
        /\ StatusesOf(r) = {"skipped"}
        /\ ActiveStepsOf(steps, r) = {}

\* step instances of request r in creation (id) order
RECURSIVE InstancesOf(_, _)
InstancesOf(st, ids) ==
    IF ids = {} THEN << >>
    ELSE << st[Min(ids)] >> \o InstancesOf(st, ids \ {Min(ids)})

EnabledSteps(template) ==
    SelectSeq(order_by_step_number(template_steps[template]), LAMBDA ts : ts.is_enabled)

\* C5: after a successful submit_request the request's step instances are
\* exactly one per enabled step of the selected template, with the same step
\* numbers in the same order, and no instance of an earlier submission survives.
C5_InstancesAreEnabledTemplateSteps ==
    LastOk("submit_request") =>
        LET r == last.request_id
            inst == InstancesOf(steps, StepsOf(steps, r))
            enabled == EnabledSteps(last.result.template)
        IN  /\ [i \in DOMAIN inst |-> inst[i].step_number]
                 = [i \in DOMAIN enabled |-> enabled[i].step_number]
            /\ \A id \in StepsOf(steps, r) :
                  /\ id >= nextStepId - last.result.steps_created
                  /\ steps[id].status \in {"pending", "active", "skipped"}

\* C6: a successful submit_request (from 'draft' or from 'returned') that
\* creates only 'skipped' steps leaves zero active steps and the request
\* status 'submitted'.
C6_AllSkippedSubmitLeavesSubmitted ==
    \A r \in RequestIds :
        (LastOk("submit_request") /\ last.request_id = r /\ StatusesOf(r) = {"skipped"})
            => ActiveStepsOf(steps, r) = {} /\ requests[r].status = "submitted"

LastApproved(action) ==
    last'.op = "process_approval" /\ last'.result.ok /\ last'.action = action

LaterPending(st, id) ==
    {j \in StepsOf(st, st[id].request_id) :
        st[j].step_number > st[id].step_number /\ st[j].status = "pending"}

\* C7: an approve of the active step marks it 'approved' and activates the
\* lowest-numbered 'pending' step with a greater step_number; when there is
\* none the request becomes 'approved' and no step is active.
C7_ApproveAdvances ==
    [][LastApproved("approve") =>
         LET r == last'.request_id IN
         /\ ActiveStepsOf(steps, r) # {}
         /\ \A id \in ActiveStepsOf(steps, r) :
               /\ steps'[id].status = "approved"
               /\ IF LaterPending(steps, id) = {}
                  THEN requests'[r].status = "approved" /\ ActiveStepsOf(steps', r) = {}
                  ELSE \E j \in LaterPending(steps, id) :
                          /\ \A k \in LaterPending(steps, id) :
                                steps[j].step_number <= steps[k].step_number
                          /\ ActiveStepsOf(steps', r) = {j}]_vars

C7_Witness ==
    /\ LastOk("process_approval") /\ last.action = "approve"
    /\ \E a, b, c \in DOMAIN steps :
          /\ steps[a].step_number < steps[b].step_number
          /\ steps[b].step_number < steps[c].step_number
          /\ steps[a].status = "approved"
          /\ steps[b].status = "skipped"
          /\ steps[c].status = "active"

Data == <<steps, requests, nextStepId, log, notifs>>

\* C8: a process_approval call on an unknown step id, on a step that is not
\* 'active', or with an action other than approve/reject/return returns an
\* error, and a call that returns an error changes no step, request, log
\* entry or notification.
C8_ErrorsMutateNothing ==
    /\ [](\A id \in DOMAIN steps \cup {nextStepId}, a \in ActionInputs :
            (id \notin DOMAIN steps \/ steps[id].status # "active" \/ a \notin ApprovalActions)
               => LET out == process_approval(DB, template_steps, id, a)
                  IN  ~out.result.ok /\ out.db = DB)
    /\ [][(last'.op = "process_approval" /\ ~last'.result.ok) => UNCHANGED Data]_vars

C8_Witness ==
    /\ last.op = "process_approval"
    /\ last.result.error = "Step is not active"
    /\ \E id \in DOMAIN steps : steps[id].status = "approved"

\* C9: a reject of the active step sets that step to 'rejected' and the
\* request to 'cancelled', changes no other step and leaves none active;
\* no step of a cancelled request is activated afterwards.
C9_RejectCancels ==
    [][/\ LastApproved("reject") =>
            LET r == last'.request_id IN
            /\ ActiveStepsOf(steps, r) # {}
            /\ \A id \in ActiveStepsOf(steps, r) :
                  steps' = [steps EXCEPT ![id].status = "rejected"]
            /\ requests'[r].status = "cancelled"
            /\ ActiveStepsOf(steps', r) = {}
       /\ \A r \in RequestIds :
            requests[r].status = "cancelled" => ActiveStepsOf(steps', r) = {}]_vars

C9_Witness ==
    /\ LastOk("process_approval") /\ last.action = "reject"
    /\ \E r \in RequestIds :
          /\ requests[r].status = "cancelled"
          /\ StatusesOf(r) = {"approved", "rejected", "pending"}

\* C10: 'approved' and 'cancelled' are absorbing: once a request has either
\* status, every submit_request on it and every process_approval on any of
\* its steps returns an error, and neither its status nor its steps change.
C10_TerminalAbsorbing ==
    /\ [](\A r \in RequestIds :
            requests[r].status \in Terminal =>
               /\ \A k \in TemplateKeys :
                     LET out == submit_request(DB, template_steps, r, k)
                     IN  ~out.result.ok /\ out.db = DB
               /\ \A id \in StepsOf(steps, r), a \in ActionInputs :
                     LET out == process_approval(DB, template_steps, id, a)
                     IN  ~out.result.ok /\ out.db = DB)
    /\ [][\A r \in RequestIds :
            requests[r].status \in Terminal =>
               /\ requests'[r].status = requests[r].status
               /\ StepsOf(steps', r) = StepsOf(steps, r)
               /\ \A id \in StepsOf(steps, r) : steps'[id] = steps[id]]_vars

C10_Witness ==
    /\ last.op = "submit_request"
    /\ last.result.error = "Cannot submit request in status"
    /\ \E r \in RequestIds : requests[r].status \in Terminal

\* a template row matches the explicit key, or the request's derived pipeline
SomeTemplateMatches(r, k) ==
    \E t \in DOMAIN ApprovalTemplates :
        \/ k # None /\ ApprovalTemplates[t].template_key = k
        \/ /\ requests[r].derived_pipeline # None
           /\ ApprovalTemplates[t].pipeline_type = requests[r].derived_pipeline

\* C11: submit_request succeeds only from 'draft' or 'returned'; for an
\* unknown request, any other status, or no template matching the explicit
\* key or the derived pipeline it returns an error, and an error changes no
\* state: the step instances and the request status stay as they were.
C11_SubmitErrorsMutateNothing ==
    /\ [](\A r \in RequestIds \cup {UnknownRequestId}, k \in TemplateKeys :
            LET out == submit_request(DB, template_steps, r, k)
                accepted == /\ r \in RequestIds
                            /\ requests[r].status \in {"draft", "returned"}
                            /\ SomeTemplateMatches(r, k)
            IN  /\ out.result.ok <=> accepted
                /\ ~out.result.ok => out.db = DB)
    /\ [][(last'.op = "submit_request" /\ ~last'.result.ok) => UNCHANGED Data]_vars

C11_Witness ==
    /\ last.op = "submit_request"
    /\ last.result.error = "No approval template found for pipeline"
    /\ \E r \in RequestIds : requests[r].status = "returned" /\ StepsOf(steps, r) # {}

\* ------------------------------------------- conditional-step predicates
\* field comparisons a condition_rule is built from
CondLeaves ==
    { CmpValues("derived_tier", "in", {"major"}),
      CmpValues("derived_tier", "not_in", {"micro"}),
      CmpValue("derived_tier", "!=", "major"),
      CmpValue("derived_pipeline", "==", "full"),
      Cmp("derived_pipeline", "exists") }

CondFlat ==
    {AllOf(<<a, b>>) : a, b \in CondLeaves} \cup {AnyOf(<<a, b>>) : a, b \in CondLeaves}

\* combinators whose first member is itself a combinator
CondNested ==
    {AllOf(<<AnyOf(<<a, b>>), c>>) : a, b, c \in CondLeaves}
       \cup {AnyOf(<<AllOf(<<a, b>>), c>>) : a, b, c \in CondLeaves}

CondRules == {NoRule} \cup CondLeaves \cup CondFlat \cup CondNested

\* one submission of a template whose single step carries the rule
InitCond ==
    /\ \E rule \in CondRules, conditional \in BOOLEAN :
          template_steps =
             << << Numbered(TStep("Legal Review", "legal", 4, TRUE, conditional, rule), 1) >>,
                KoOnlySteps >>
    /\ \E c \in Classifications :
          requests = [r \in RequestIds |-> NewRequest(c[1], c[2])]
    /\ steps = << >>
    /\ nextStepId = 1
    /\ log = [r \in RequestIds |-> << >>]
    /\ notifs = [r \in RequestIds |-> << >>]
    /\ last = NoCall
    /\ inflight = [c \in Callers |-> Idle]
    /\ request_numbers = << >>
    /\ year = FirstYear
    /\ NoAdvisoryState

SpecCond == InitCond /\ [][Next]_vars

\* the predicate a condition tree denotes: allOf is the conjunction and anyOf
\* the disjunction of its members, a member being a comparison or a tree
RECURSIVE TreeEval(_, _)
TreeEval(node, request) ==
    IF "allOf" \in node.keys
    THEN \A i \in DOMAIN node.allOf : TreeEval(node.allOf[i], request)
    ELSE IF "anyOf" \in node.keys
    THEN \E i \in DOMAIN node.anyOf : TreeEval(node.anyOf[i], request)
    ELSE LET value == getattr(request, node.field)
         IN  CASE node.operator = "in" -> value \in node.values
               [] node.operator = "not_in" -> value \notin node.values
               [] node.operator = "==" -> value = node.value
               [] node.operator = "!=" -> value # node.value
               [] node.operator = "exists" -> value # None

TemplateStepOf(template, step_number) ==
    CHOOSE ts \in {template_steps[template][i] : i \in DOMAIN template_steps[template]} :
        ts.step_number = step_number

\* C12: at submission a template step is materialised 'skipped' if and only
\* if it is flagged conditional and its predicate tree evaluates false on the
\* request; a non-conditional step is never skipped.
C12_SkippedIffPredicateFalse ==
    LastOk("submit_request") =>
        \A id \in StepsOf(steps, last.request_id) :
            LET ts == TemplateStepOf(last.result.template, steps[id].step_number)
            IN  steps[id].status = "skipped"
                   <=> /\ ts.is_conditional
                       /\ ts.condition_rule.type # "none"
                       /\ ~TreeEval(ts.condition_rule, requests[last.request_id])

\* ------------------------------------------------- step names and statuses
\* the step-name -> request-status table
GateTable ==
    [iss_review |-> {"ISS", "ISS Review", "COR Review", "COR Confirmation",
                     "COR + PM Justification", "COR Justification", "PM Approval",
                     "Supervisor", "Supervisor Approval"},
     asr_review |-> {"ASR", "ASR Review"},
     finance_review |-> {"Finance", "Finance Review", "FM Funding Identification",
                         "BM LOA Confirmation", "GPC Purchase", "GPC Holder"},
     ko_review |-> {"KO Review", "KO Action", "KO Execution", "KO Determination",
                    "KO Contract Mod", "COR Authorization"},
     legal_review |-> {"Legal Review"},
     cio_approval |-> {"CIO Approval", "CTO Approval"},
     senior_review |-> {"Senior Leadership"}]

GateStatus(step_name) ==
    IF \E s \in DOMAIN GateTable : step_name \in GateTable[s]
    THEN CHOOSE s \in DOMAIN GateTable : step_name \in GateTable[s]
    ELSE "submitted"

\* display names a template step can carry: the mapped ones and a custom one
GateNames == UNION {GateTable[s] : s \in DOMAIN GateTable} \cup {"Custom Gate"}

\* a two-step template over all display names
InitNames ==
    /\ \E n1, n2 \in GateNames :
          template_steps =
             << << Numbered(TStep(n1, "branch_chief", 5, TRUE, FALSE, NoRule), 1),
                   Numbered(TStep(n2, "ko", 7, TRUE, FALSE, NoRule), 2) >>,
                KoOnlySteps >>
    /\ requests = [r \in RequestIds |-> NewRequest("full", "major")]
    /\ steps = << >>
    /\ nextStepId = 1
    /\ log = [r \in RequestIds |-> << >>]
    /\ notifs = [r \in RequestIds |-> << >>]
    /\ last = NoCall
    /\ inflight = [c \in Callers |-> Idle]
    /\ request_numbers = << >>
    /\ year = FirstYear
    /\ NoAdvisoryState

SpecNames == InitNames /\ [][Next]_vars

\* C13: in every state with an active step the request status is the table
\* value of the active step's display name, 'submitted' for an unmapped name.
C13_StatusFollowsActiveStepName ==
    \A id \in DOMAIN steps :
        steps[id].status = "active"
            => requests[steps[id].request_id].status = GateStatus(steps[id].step_name)

C13_Witness ==
    /\ LastOk("process_approval") /\ last.action = "approve"
    /\ \E id \in DOMAIN steps :
          /\ steps[id].status = "active"
          /\ steps[id].step_name = "COR Authorization"
          /\ requests[steps[id].request_id].status = "ko_review"

\* ------------------------------------------------------------- due dates
\* the template the request was last submitted with, as named in the
\* 'submitted' entry of its activity log
SubmittedTemplate(r) ==
    LET subs == {i \in DOMAIN log[r] : log[r][i].activity_type = "submitted"}
        entry == log[r][CHOOSE i \in subs : \A j \in subs : j <= i]
    IN  CHOOSE t \in DOMAIN ApprovalTemplates : ApprovalTemplates[t].name = entry.description

\* C14: the due date of every active step is its activation time plus the
\* sla_days of the template step with the same step number in the template
\* the request was submitted with.
C14_DueDateUsesSubmittedTemplate ==
    \A id \in DOMAIN steps :
        steps[id].status = "active" =>
            steps[id].due_sla =
               TemplateStepOf(SubmittedTemplate(steps[id].request_id),
                              steps[id].step_number).sla_days

\* ------------------------------------------------------ get_approval_status
MaxProgressSteps == 4    \* longest template drawn in InitProgress

\* round(100 * num / den, 1) in tenths of a percent; Python rounds a tie to
\* the even neighbour
round_tenths(num, den) ==
    LET q == (1000 * num) \div den
        rem == (1000 * num) % den
    IN  IF 2 * rem > den THEN q + 1
        ELSE IF 2 * rem < den THEN q
        ELSE IF q % 2 = 0 THEN q ELSE q + 1

StatusView(current, completed, total, progress) ==
    [ok |-> TRUE, error |-> None, template |-> NoTemplate, steps_created |-> 0,
     current_step |-> current, completed |-> completed, total_steps |-> total,
     progress |-> progress]

\* variant: every step counted in the denominator
get_approval_status_all_steps(st, request_id) ==
    LET ids == StepsOf(st, request_id)
        active == {id \in ids : st[id].status = "active"}
        completed == Cardinality({id \in ids : st[id].status = "approved"})
        total == Cardinality(ids)
        current == IF active = {} THEN NoStep
                   ELSE CHOOSE id \in active :
                           \A j \in active : st[j].step_number <= st[id].step_number
    IN  IF ids = {} THEN StatusView(NoStep, 0, 0, 0)
        ELSE StatusView(current, completed, total,
                        IF total > 0 THEN round_tenths(completed, total) ELSE 0)

get_approval_status(st, request_id) ==
    LET ids == StepsOf(st, request_id)
        active == {id \in ids : st[id].status = "active"}
        completed == Cardinality({id \in ids : st[id].status = "approved"})
        non_skipped == Cardinality({id \in ids : st[id].status # "skipped"})
        current == IF active = {} THEN NoStep
                   ELSE CHOOSE id \in active :
                           \A j \in active : st[j].step_number <= st[id].step_number
    IN  IF ids = {} THEN StatusView(NoStep, 0, 0, 0)
        ELSE StatusView(current, completed, non_skipped,
                        IF non_skipped > 0 THEN round_tenths(completed, non_skipped) ELSE 0)

GetApprovalStatus(request_id) ==
    /\ last' = Call("get_approval_status", request_id, None,
                    get_approval_status(steps, request_id))
    /\ UNCHANGED <<template_steps, requests, steps, nextStepId, log, notifs,
                   inflight, request_numbers, year, AdvisoryVars>>

ProgressCatalog ==
    { TStep("ISS", "branch_chief", 5, TRUE, FALSE, NoRule),
      TStep("Legal Review", "legal", 4, TRUE, TRUE,
            CmpValues("derived_tier", "in", {"major"})) }

InitProgress ==
    /\ \E q \in SeqsUpTo(ProgressCatalog, MaxProgressSteps) :
          template_steps = << [i \in DOMAIN q |-> Numbered(q[i], i)], KoOnlySteps >>
    /\ \E c \in Classifications :
          requests = [r \in RequestIds |-> NewRequest(c[1], c[2])]
    /\ steps = << >>
    /\ nextStepId = 1
    /\ log = [r \in RequestIds |-> << >>]
    /\ notifs = [r \in RequestIds |-> << >>]
    /\ last = NoCall
    /\ inflight = [c \in Callers |-> Idle]
    /\ request_numbers = << >>
    /\ year = FirstYear
    /\ NoAdvisoryState

NextProgress ==
    \/ Next
    \/ \E r \in RequestIds : GetApprovalStatus(r)

SpecProgress == InitProgress /\ [][NextProgress]_vars

CountOf(r, statuses) ==
    Cardinality({id \in StepsOf(steps, r) : steps[id].status \in statuses})

Abs(x) == IF x < 0 THEN -x ELSE x

\* C15: the reported progress is 100 * approved / non-skipped to the nearest
\* tenth, 0 when no step is non-skipped; [approved, approved, skipped, active]
\* reports 66.7, and 100 is reported exactly when all non-skipped steps are
\* approved.
C15_Progress ==
    last.op = "get_approval_status" =>
        LET r == last.request_id
            k == CountOf(r, {"approved"})
            n == Cardinality(StepsOf(steps, r)) - CountOf(r, {"skipped"})
            p == last.result.progress
            statuses == [i \in DOMAIN InstancesOf(steps, StepsOf(steps, r)) |->
                            InstancesOf(steps, StepsOf(steps, r))[i].status]
        IN  /\ n = 0 => p = 0
            /\ n > 0 => 2 * Abs(p * n - 1000 * k) <= n
            /\ n > 0 => (p = 1000 <=> k = n)
            /\ statuses = <<"approved", "approved", "skipped", "active">> => p = 667

C15_Witness ==
    /\ last.op = "get_approval_status"
    /\ last.result.progress = 667
    /\ \E r \in RequestIds :
          /\ Cardinality(StepsOf(steps, r)) = 4
          /\ CountOf(r, {"approved"}) = 2
          /\ CountOf(r, {"skipped"}) = 1
          /\ CountOf(r, {"active"}) = 1

\* ---------------------------------------------------------- notifications
RoleCall(role) ==
    [fn |-> "notify_users_by_role", target |-> role, type |-> "step_activated"]

RequestorCall(type) ==
    [fn |-> "notify_requestor", target |-> "requestor", type |-> type]

\* the notification calls a transition on request r must add
ExpectedCalls(r) ==
    LET act == ActiveStepsOf(steps', r)
        activation == IF act = {} THEN << >>
                      ELSE << RoleCall(steps'[CHOOSE id \in act : TRUE].approver_role) >>
    IN  IF ~last'.result.ok THEN << >>
        ELSE IF last'.op = "submit_request" THEN activation
        ELSE IF last'.action = "approve"
             THEN IF act # {} THEN activation
                  ELSE << RequestorCall("request_fully_approved") >>
        ELSE IF last'.action = "reject" THEN << RequestorCall("request_rejected") >>
        ELSE << RequestorCall("request_returned") >>

\* C16: a transition emits exactly one notification call of the matching
\* type (a 'step_activated' call for the role of the step it activates, none
\* when a submit activates no step; 'request_fully_approved',
\* 'request_rejected' or 'request_returned' to the requestor), and an error
\* outcome emits none.
C16_OneNotificationPerTransition ==
    [][last'.op \in {"submit_request", "process_approval"} =>
         \A r \in RequestIds :
            notifs'[r] = IF last'.result.ok /\ last'.request_id # r THEN notifs[r]
                         ELSE notifs[r] \o ExpectedCalls(r)]_vars

C16_Witness ==
    /\ LastOk("process_approval") /\ last.action = "approve"
    /\ \E r \in RequestIds :
          /\ requests[r].status = "approved"
          /\ Len(notifs[r]) >= 2
          /\ notifs[r][Len(notifs[r])] = RequestorCall("request_fully_approved")
          /\ notifs[r][Len(notifs[r]) - 1].type = "step_activated"

\* ------------------------------------------------ failing notification call
NotifyRaised == "notification raised"

\* a call whose notify_users_by_role / notify_requestor raises: the exception
\* leaves the function before db.session.commit(), the session is discarded
raised_in_notify(db, out) ==
    IF out.result.ok /\ out.db.notifs # db.notifs
    THEN [db |-> db, result |-> Err(NotifyRaised)]
    ELSE out

SubmitNotifyRaises(request_id, template_key) ==
    LET out == raised_in_notify(DB, submit_request(DB, template_steps, request_id, template_key))
    IN  /\ out.result.error = NotifyRaised
        /\ Commit(out)
        /\ last' = [op |-> "submit_request", request_id |-> request_id,
                    action |-> None, result |-> out.result]
        /\ UNCHANGED <<template_steps, inflight, request_numbers, year, AdvisoryVars>>

ProcessApprovalNotifyRaises(step_id, action) ==
    LET out == raised_in_notify(DB, process_approval(DB, template_steps, step_id, action))
    IN  /\ out.result.error = NotifyRaised
        /\ Commit(out)
        /\ last' = [op |-> "process_approval", request_id |-> steps[step_id].request_id,
                    action |-> action, result |-> out.result]
        /\ UNCHANGED <<template_steps, inflight, request_numbers, year, AdvisoryVars>>

NextNotifyFail ==
    \/ Next
    \/ \E r \in RequestIds, k \in TemplateKeys : SubmitNotifyRaises(r, k)
    \/ \E id \in DOMAIN steps, a \in ApprovalActions : ProcessApprovalNotifyRaises(id, a)

SpecNotifyFail == Init /\ [][NextNotifyFail]_vars

\* C17: a notification call that raises during submit_request or
\* process_approval does not prevent the transition: its step and request
\* status changes are committed all the same.
C17_TransitionSurvivesNotifyFailure ==
    [][last'.result.error = NotifyRaised =>
         LET r == last'.request_id IN
         IF last'.op = "process_approval"
         THEN \E id \in ActiveStepsOf(steps, r) :
                 LET out == process_approval(DB, template_steps, id, last'.action)
                 IN  steps' = out.db.steps /\ requests' = out.db.requests
         ELSE \E k \in TemplateKeys :
                 LET out == submit_request(DB, template_steps, r, k)
                 IN  out.result.ok /\ steps' = out.db.steps /\ requests' = out.db.requests]_vars

\* ------------------------------------- process_approval calls that overlap
\* what a call past its checks writes and commits
approval_writes(db, tsteps, step_id, action) ==
    IF action = "approve" THEN approve_step(db, tsteps, step_id)
    ELSE IF action = "reject" THEN reject_step(db, step_id)
    ELSE return_step(db, step_id)

MaxDecisions == 3    \* process_approval calls that pass their checks

\* decisions committed so far (each one appends an entry of its own type)
Decisions ==
    Cardinality({e \in UNION {{r} \X DOMAIN log[r] : r \in RequestIds} :
                    log[e[1]][e[2]].activity_type \in {"approved", "rejected", "returned"}})

\* the call loads the step and tests step.status; the source takes no lock,
\* so another call may run between this and the commit
BeginApproval(c, step_id, action) ==
    /\ inflight[c].pc = "idle"
    /\ Decisions + Cardinality({d \in Callers : inflight[d].pc = "checked"}) < MaxDecisions
    /\ LET e == approval_error(DB, step_id)
       IN  IF e # None
           THEN /\ last' = Call("process_approval", 0, action, Err(e))
                /\ UNCHANGED inflight
           ELSE /\ inflight' = [inflight EXCEPT ![c] =
                                  [pc |-> "checked", step_id |-> step_id, action |-> action]]
                /\ UNCHANGED last
    /\ UNCHANGED <<template_steps, requests, steps, nextStepId, log, notifs,
                   request_numbers, year, AdvisoryVars>>

\* the rest of the call: the writes of its branch and db.session.commit()
FinishApproval(c) ==
    /\ inflight[c].pc = "checked"
    /\ LET step_id == inflight[c].step_id
           action == inflight[c].action
       IN  /\ Commit([db |-> approval_writes(DB, template_steps, step_id, action)])
           /\ last' = Call("process_approval", steps[step_id].request_id, action, Ok)
    /\ inflight' = [inflight EXCEPT ![c] = Idle]
    /\ UNCHANGED <<template_steps, request_numbers, year, AdvisoryVars>>

Quiescent == \A c \in Callers : inflight[c].pc = "idle"

\* races between approvals: a submission runs while no approval is in flight
NextRace ==
    \/ Quiescent /\ \E r \in RequestIds, k \in TemplateKeys : Submit(r, k)
    \/ \E c \in Callers, id \in DOMAIN steps, a \in ApprovalActions : BeginApproval(c, id, a)
    \/ \E c \in Callers : FinishApproval(c)

SpecRace == InitProgress /\ [][NextRace]_vars

\* C18: process_approval calls issued concurrently against the same active
\* step are serialized: once they have all returned, the request has at most
\* one active step, and none when its status is 'cancelled', 'returned' or
\* 'approved'.
C18_ApprovalsSerialized ==
    Quiescent =>
       \A r \in RequestIds :
          /\ Cardinality(ActiveStepsOf(steps, r)) <= 1
          /\ requests[r].status \in {"cancelled", "returned", "approved"}
                => ActiveStepsOf(steps, r) = {}

\* ------------------------------------------------------ template selection
PipelineInputs == {None, "full", "ko_only", "other"}

\* what the priority rule asks of the template chosen for a request and a key
ChosenByPriority(request, template_key, t) ==
    LET keyed == \E u \in DOMAIN ApprovalTemplates :
                    template_key # None /\ ApprovalTemplates[u].template_key = template_key
        piped == \E u \in DOMAIN ApprovalTemplates :
                    /\ request.derived_pipeline # None
                    /\ ApprovalTemplates[u].pipeline_type = request.derived_pipeline
    IN  IF keyed THEN t # NoTemplate /\ ApprovalTemplates[t].template_key = template_key
        ELSE IF piped
             THEN t # NoTemplate /\ ApprovalTemplates[t].pipeline_type = request.derived_pipeline
        ELSE t = NoTemplate

\* C19: select_template returns the template with the explicit key when one
\* exists, otherwise the template of the request's derived pipeline, and none
\* when neither lookup matches or the request has no derived pipeline; a
\* successful submit_request reports a template chosen that way.
C19_TemplatePriority ==
    /\ [](\A k \in TemplateKeys :
             \A request \in {requests[r] : r \in RequestIds}
                            \cup {NewRequest(p, "micro") : p \in PipelineInputs} :
                ChosenByPriority(request, k, select_template(request, k)))
    /\ [][(last'.op = "submit_request" /\ last'.result.ok) =>
             \E k \in TemplateKeys :
                ChosenByPriority(requests[last'.request_id], k, last'.result.template)]_vars

\* a submission whose explicit key selected a template of another pipeline
\* than the request's own
C19_Witness ==
    /\ LastOk("submit_request")
    /\ ApprovalTemplates[last.result.template].pipeline_type
          # requests[last.request_id].derived_pipeline

\* ------------------------------------------------------- request numbers
MaxRows == 3         \* requests held at once
MaxSeq == 10         \* highest sequence number generated
MaxYears == 2        \* calendar years the clock passes through
NumberWidth == 4     \* the :04d of the format string

\* request_numbers lists AcquisitionRequest.request_number in id order. A
\* number 'ACQ-2026-0010' is << "ACQ", 2026, <<0, 0, 1, 0>> >>: prefix, year
\* and the decimal digits of the last '-' separated part.
RECURSIVE decimal(_)
decimal(n) == IF n < 10 THEN << n >> ELSE Append(decimal(n \div 10), n % 10)

RECURSIVE zero_pad(_)
zero_pad(digits) ==
    IF Len(digits) >= NumberWidth THEN digits ELSE zero_pad(<< 0 >> \o digits)

\* f'ACQ-{year}-{seq:04d}'
format_number(y, seq) == << "ACQ", y, zero_pad(decimal(seq)) >>

\* int(request_number.split('-')[-1])
RECURSIVE int(_)
int(digits) ==
    IF Len(digits) = 0 THEN 0
    ELSE 10 * int(SubSeq(digits, 1, Len(digits) - 1)) + digits[Len(digits)]

\* request_number.like(f'ACQ-{year}-%')
like_year(number, y) == number[1] = "ACQ" /\ number[2] = y

\* variant: the query ordered by id ascending
generate_request_number_oldest(rows, y) ==
    LET matching == SelectSeq(rows, LAMBDA n : like_year(n, y))
    IN  IF Len(matching) > 0
        THEN format_number(y, int(matching[1][3]) + 1)
        ELSE format_number(y, 1)

\* the row with the highest id among this year's numbers decides; every
\* stored number ends in digits, so the except branch is never taken
generate_request_number(rows, y) ==
    LET matching == SelectSeq(rows, LAMBDA n : like_year(n, y))
    IN  IF Len(matching) > 0
        THEN format_number(y, int(matching[Len(matching)][3]) + 1)
        ELSE format_number(y, 1)

Created(op, number) ==
    [op |-> op, request_id |-> 0, action |-> None,
     result |-> [ok |-> TRUE, error |-> None, template |-> NoTemplate,
                 steps_created |-> 0, request_number |-> number,
                 request |-> NewRequest(None, None)]]

AddRequest(op) ==
    LET number == generate_request_number(request_numbers, year)
    IN  /\ Len(request_numbers) < MaxRows
        /\ int(number[3]) <= MaxSeq
        /\ request_numbers' = Append(request_numbers, number)
        /\ last' = Created(op, number)
        /\ UNCHANGED <<template_steps, requests, steps, nextStepId, log, notifs,
                       inflight, year, AdvisoryVars>>

CreateRequest == AddRequest("create_request")

CreateRequestFromForecast == AddRequest("create_request_from_forecast")

DeleteRequest(i) ==
    /\ request_numbers' = SubSeq(request_numbers, 1, i - 1)
                             \o SubSeq(request_numbers, i + 1, Len(request_numbers))
    /\ last' = Call("delete_request", 0, None, Ok)
    /\ UNCHANGED <<template_steps, requests, steps, nextStepId, log, notifs,
                   inflight, year, AdvisoryVars>>

\* datetime.utcnow() passes into the next year
NewYear ==
    /\ year < FirstYear + MaxYears - 1
    /\ year' = year + 1
    /\ UNCHANGED <<template_steps, requests, steps, nextStepId, log, notifs, last,
                   inflight, request_numbers, AdvisoryVars>>

InitNumbers ==
    /\ Init
    /\ template_steps = << << >>, KoOnlySteps >>
    /\ requests = [r \in RequestIds |-> NewRequest(None, "micro")]

NextNumbers ==
    \/ CreateRequest
    \/ CreateRequestFromForecast
    \/ \E i \in DOMAIN request_numbers : DeleteRequest(i)
    \/ NewYear

SpecNumbers == InitNumbers /\ [][NextNumbers]_vars

Max(S) == CHOOSE x \in S : \A y \in S : y <= x

SequencesOfYear(y) ==
    {int(request_numbers[i][3]) : i \in {j \in DOMAIN request_numbers :
                                            like_year(request_numbers[j], y)}}

\* C20: the number given to a new request carries the current year and the
\* sequence max(sequences of this year's existing numbers) + 1, or 1 when the
\* year has none, whichever requests were created or deleted before.
C20_NextSequenceIsMaxPlusOne ==
    [][Len(request_numbers') > Len(request_numbers) =>
         LET number == request_numbers'[Len(request_numbers')]
         IN  /\ like_year(number, year)
             /\ Len(number[3]) >= NumberWidth
             /\ int(number[3]) = Max(SequencesOfYear(year) \cup {0}) + 1]_vars

\* ACQ-<year>-0001 and -0009 existed and the new request got -0010
C20_Witness ==
    /\ last.op \in {"create_request", "create_request_from_forecast"}
    /\ LET n == Len(request_numbers)
       IN  /\ n > 2
           /\ \E i \in 1..(n - 2) : request_numbers[i] = << "ACQ", year, << 0, 0, 0, 1 >> >>
           /\ request_numbers[n - 1] = << "ACQ", year, << 0, 0, 0, 9 >> >>
           /\ request_numbers[n] = << "ACQ", year, << 0, 0, 1, 0 >> >>
           /\ last.result.request_number = request_numbers[n]

\* ------------------------------------------------------ advisory triggers
MaxIntakes == 2      \* complete_intake and recalculate calls
MaxReviews == 1      \* submit_advisory calls

\* the AdvisoryTriggerRule table: its rows, or a table whose queries raise
RuleTable(rows) == [available |-> TRUE, rows |-> rows]
Unavailable == [available |-> FALSE, rows |-> << >>]

\* AdvisoryTriggerRule rows; a column is kept as the text the table stores
TriggerRule(team, trigger_condition, feeds_into_gate) ==
    [team |-> team, trigger_condition |-> trigger_condition,
     feeds_into_gate |-> feeds_into_gate]

FmRule == TriggerRule("Business Manager (FM)", "New request above micro-purchase", "Finance")
ScrmOdcRule == TriggerRule("SCRM", "CLIN Execution - ODC", None)
ScrmGateRule == TriggerRule("SCRM", "", "ASR Review")

NoTriggerRule == TriggerRule(None, "", None)

\* the AdvisoryTriggerRule table: missing, or one of these contents
RuleTables ==
    {Unavailable, RuleTable(<< >>), RuleTable(<< FmRule >>),
     RuleTable(<< ScrmOdcRule, FmRule >>), RuleTable(<< ScrmGateRule, ScrmOdcRule >>)}

\* needle in text.lower(), for the texts and needles that occur
ContainsPairs ==
    { <<"SCRM", "scrm">>,
      <<"Business Manager (FM)", "business manager">>, <<"Business Manager (FM)", "fm">>,
      <<"Finance", "finance">>, <<"ASR Review", "asr">>,
      <<"New request above micro-purchase", "above micro">>,
      <<"CLIN Execution - ODC", "clin execution">>, <<"CLIN Execution - ODC", "odc">> }

contains(text, needle) == <<text, needle>> \in ContainsPairs

\* ADVISORY_CODE_MAP
CodeTeam(code) ==
    CASE code = "SCRM" -> "scrm" [] code = "SBO" -> "sbo" [] code = "CIO" -> "cio"
      [] code = "508" -> "section508" [] code = "FEDRAMP" -> "fedramp" [] code = "FM" -> "fm"
      [] OTHER -> None

DefaultGate(team) ==
    CASE team \in {"scrm", "cio", "fedramp"} -> "iss"
      [] team \in {"sbo", "section508"} -> "asr"
      [] OTHER -> "finance"

\* c.strip() followed by code.upper(), on the tokens that occur
strip_upper(token) ==
    CASE token = " scrm" -> "SCRM"
      [] token = "" -> ""
      [] token = "None" -> "NONE"
      [] OTHER -> token

normalize_team(team_name) ==
    IF team_name = None THEN None
    ELSE IF contains(team_name, "scrm") THEN "scrm"
    ELSE IF contains(team_name, "small business") \/ contains(team_name, "sbo") THEN "sbo"
    ELSE IF contains(team_name, "cio") \/ contains(team_name, "it governance") THEN "cio"
    ELSE IF contains(team_name, "508") THEN "section508"
    ELSE IF contains(team_name, "fedramp") THEN "fedramp"
    ELSE IF contains(team_name, "business manager") \/ contains(team_name, "fm")
            \/ contains(team_name, "financial") THEN "fm"
    ELSE team_name

normalize_gate(gate_text) ==
    IF gate_text = None THEN None
    ELSE IF contains(gate_text, "iss") THEN "iss"
    ELSE IF contains(gate_text, "asr") THEN "asr"
    ELSE IF contains(gate_text, "ko") THEN "ko_review"
    ELSE IF contains(gate_text, "finance") THEN "finance"
    ELSE IF contains(gate_text, "pm") THEN "iss"
    ELSE IF contains(gate_text, "cor") THEN "ko_review"
    ELSE gate_text

\* the name _find_trigger_rule searches for
team_map(team) ==
    CASE team = "scrm" -> "SCRM" [] team = "sbo" -> "Small Business Office"
      [] team = "cio" -> "CIO / IT Governance" [] team = "section508" -> "Section 508"
      [] team = "fm" -> "Business Manager (FM)" [] team = "fedramp" -> "FedRAMP PMO"
      [] OTHER -> team

\* AdvisoryTriggerRule.team.ilike(f'%{search_name}%'), for the team columns
\* that occur: each contains its own name and no other searched name
ilike(text, search_name) == text = search_name

\* first rule whose team column contains the searched name; no rule when
\* there is none or when the query raises
find_trigger_rule(table, team) ==
    IF ~table.available THEN NoTriggerRule
    ELSE LET hits == {i \in DOMAIN table.rows : ilike(table.rows[i].team, team_map(team))}
         IN  IF hits = {} THEN NoTriggerRule ELSE table.rows[Min(hits)]

evaluate_trigger_condition(rule, request) ==
    IF rule.trigger_condition = "" THEN FALSE
    ELSE IF normalize_team(rule.team) = "fm" /\ contains(rule.trigger_condition, "above micro")
         THEN request.derived_tier \notin {"micro", None}
    ELSE IF contains(rule.trigger_condition, "clin execution")
            /\ contains(rule.trigger_condition, "odc")
         THEN request.derived_acquisition_type = "clin_execution_odc"
    ELSE FALSE

AdvisoryInput(request_id, team, blocks_gate) ==
    [request_id |-> request_id, team |-> team, status |-> "requested",
     blocks_gate |-> blocks_gate]

TeamCall(team) ==
    [fn |-> "notify_users_by_team", target |-> team, type |-> "advisory_requested"]

\* what one _trigger_advisories call has done so far
NothingTriggered == [rows |-> << >>, notes |-> << >>, fields |-> {}, triggered |-> {}]

\* 1. the codes of the matched IntakePath, in order
RECURSIVE trigger_codes(_, _, _, _)
trigger_codes(acc, codes, request_id, rules) ==
    IF Len(codes) = 0 THEN acc
    ELSE LET team == CodeTeam(strip_upper(Head(codes)))
             rule == find_trigger_rule(rules, team)
             gate == IF rule # NoTriggerRule /\ normalize_gate(rule.feeds_into_gate) # None
                     THEN normalize_gate(rule.feeds_into_gate)
                     ELSE DefaultGate(team)
             next == IF team = None \/ team \in acc.triggered THEN acc
                     ELSE [rows |-> Append(acc.rows, AdvisoryInput(request_id, team, gate)),
                           notes |-> Append(acc.notes, TeamCall(team)),
                           fields |-> acc.fields \cup ({team} \cap StatusTeams),
                           triggered |-> acc.triggered \cup {team}]
         IN  trigger_codes(next, Tail(codes), request_id, rules)

\* 2. the rows of the AdvisoryTriggerRule table, in order
RECURSIVE trigger_rows(_, _, _, _)
trigger_rows(acc, rules, request_id, request) ==
    IF Len(rules) = 0 THEN acc
    ELSE LET rule == Head(rules)
             team == normalize_team(rule.team)
             gate == IF normalize_gate(rule.feeds_into_gate) # None
                     THEN normalize_gate(rule.feeds_into_gate) ELSE "asr"
             next == IF team \in acc.triggered \/ ~evaluate_trigger_condition(rule, request)
                     THEN acc
                     ELSE [acc EXCEPT !.rows = Append(@, AdvisoryInput(request_id, team, gate)),
                                      !.notes = Append(@, TeamCall(team)),
                                      !.triggered = @ \cup {team}]
         IN  trigger_rows(next, Tail(rules), request_id, request)

\* advisory_triggers: no string, or the parts its split(',') gives
NoTriggers == [given |-> FALSE, parts |-> << >>]
Triggers(parts) == [given |-> TRUE, parts |-> parts]

is_none_text(parts) == Len(parts) = 1 /\ strip_upper(parts[1]) = "NONE"

\* variant: an unavailable rule table aborts the whole triggering
trigger_advisories_needing_rules(request_id, request, advisory_triggers, table) ==
    LET parts == advisory_triggers.parts
        coded == IF ~advisory_triggers.given \/ parts = << "" >> \/ is_none_text(parts)
                 THEN NothingTriggered
                 ELSE trigger_codes(NothingTriggered,
                                    SelectSeq(parts, LAMBDA c : strip_upper(c) # ""),
                                    request_id, table)
    IN  IF ~table.available THEN NothingTriggered
        ELSE trigger_rows(coded, table.rows, request_id, request)

trigger_advisories(request_id, request, advisory_triggers, table) ==
    LET parts == advisory_triggers.parts
        coded == IF ~advisory_triggers.given \/ parts = << "" >> \/ is_none_text(parts)
                 THEN NothingTriggered
                 ELSE trigger_codes(NothingTriggered,
                                    SelectSeq(parts, LAMBDA c : strip_upper(c) # ""),
                                    request_id, table)
    IN  IF ~table.available THEN coded
        ELSE trigger_rows(coded, table.rows, request_id, request)

\* ---------------------------------------------- intake and advisory handlers
\* a JSON object is its set of <<key, value>> pairs
dict_get(data, key, default) ==
    IF \E p \in data : p[1] = key THEN (CHOOSE p \in data : p[1] = key)[2] ELSE default

NoData == {}

\* results derive_classification may give for the stored intake answers
Derived(type, tier, pipeline, template_key, triggers) ==
    [derived_acquisition_type |-> type, derived_tier |-> tier,
     derived_pipeline |-> pipeline, approval_template_key |-> template_key,
     advisory_triggers |-> triggers]

DerivedResults ==
    { Derived("new_competitive", "major", "full", "APPR-FULL", Triggers(<< "SCRM", "FM" >>)),
      Derived("new_competitive", "major", "full", "APPR-FULL", Triggers(<< " scrm", "SCRM" >>)),
      Derived("micro_purchase", "micro", "ko_only", "APPR-KO-ONLY", Triggers(<< "None" >>)),
      Derived("clin_execution_odc", "major", "full", None, NoTriggers) }

apply_derived(request, derived) ==
    [request EXCEPT !.derived_acquisition_type = derived.derived_acquisition_type,
                    !.derived_tier = derived.derived_tier,
                    !.derived_pipeline = derived.derived_pipeline]

\* complete_intake and recalculate calls so far (each one appends a log entry)
Intakes ==
    Cardinality({e \in UNION {{r} \X DOMAIN log[r] : r \in RequestIds} :
                    log[e[1]][e[2]].activity_type \in {"intake_completed", "recalculated"}})

\* submit_advisory calls so far
Reviews ==
    Cardinality({e \in UNION {{r} \X DOMAIN log[r] : r \in RequestIds} :
                    log[e[1]][e[2]].activity_type = "advisory_completed"})

CompleteIntake(request_id, derived) ==
    LET request == apply_derived(requests[request_id], derived)
        fired == trigger_advisories(request_id, request, derived.advisory_triggers,
                                    trigger_rules)
    IN  /\ Intakes < MaxIntakes
        /\ requests' = [requests EXCEPT ![request_id] = request]
        /\ advisories' = advisories \o fired.rows
        /\ team_status' = [team_status EXCEPT ![request_id] =
                             [t \in StatusTeams |-> IF t \in fired.fields THEN "requested"
                                                    ELSE @[t]]]
        /\ notifs' = [notifs EXCEPT ![request_id] = @ \o fired.notes]
        /\ log' = [log EXCEPT ![request_id] = Append(@, LogEntry("intake_completed", None))]
        /\ last' = Call("complete_intake", request_id, None, Ok)
        /\ UNCHANGED <<template_steps, steps, nextStepId, inflight, request_numbers, year,
                       pipeline_config, trigger_rules>>

Recalculate(request_id, derived) ==
    /\ Intakes < MaxIntakes
    /\ requests' = [requests EXCEPT ![request_id] = apply_derived(@, derived)]
    /\ log' = [log EXCEPT ![request_id] = Append(@, LogEntry("recalculated", None))]
    /\ last' = Call("recalculate", request_id, None, Ok)
    /\ UNCHANGED <<template_steps, steps, nextStepId, notifs, inflight, request_numbers,
                   year, AdvisoryVars>>

StatusInputs == {"in_review", "requested"}

SubmitPayloads ==
    {NoData, {<<"findings", "text">>}} \cup {{<<"status", s>>} : s \in StatusInputs}

\* adv.status = data.get('status', 'complete_no_issues')
submit_status(adv, data) == dict_get(data, "status", "complete_no_issues")

SubmitAdvisory(advisory_id, data) ==
    IF data = NoData
    THEN /\ last' = Call("submit_advisory", 0, None, Err("No data provided"))
         /\ UNCHANGED <<template_steps, requests, steps, nextStepId, log, notifs,
                        inflight, request_numbers, year, AdvisoryVars>>
    ELSE LET adv == advisories[advisory_id]
             status == submit_status(adv, data)
         IN  /\ Reviews < MaxReviews
             /\ advisories' = [advisories EXCEPT ![advisory_id].status = status]
             /\ team_status' = IF adv.team \in StatusTeams
                               THEN [team_status EXCEPT ![adv.request_id][adv.team] = status]
                               ELSE team_status
             /\ log' = [log EXCEPT ![adv.request_id] =
                          Append(@, LogEntry("advisory_completed", None))]
             /\ notifs' = [notifs EXCEPT ![adv.request_id] =
                             Append(@, RequestorCall("advisory_completed"))]
             /\ last' = Call("submit_advisory", adv.request_id, None, Ok)
             /\ UNCHANGED <<template_steps, requests, steps, nextStepId, inflight,
                            request_numbers, year, pipeline_config, trigger_rules>>

UpdatePayloads ==
    {NoData} \cup {{<<"status", s>>} : s \in {"requested", "complete_no_issues"}}

\* setattr(adv, field, data[field]) for the updatable fields present
update_advisory(adv, data) ==
    [adv EXCEPT !.status = dict_get(data, "status", @),
                !.blocks_gate = dict_get(data, "blocks_gate", @)]

UpdateAdvisory(advisory_id, data) ==
    /\ IF data = NoData
       THEN /\ last' = Call("update_advisory", 0, None, Err("No data provided"))
            /\ UNCHANGED advisories
       ELSE /\ advisories' = [advisories EXCEPT ![advisory_id] = update_advisory(@, data)]
            /\ last' = Call("update_advisory", advisories[advisory_id].request_id, None, Ok)
    /\ UNCHANGED <<template_steps, requests, steps, nextStepId, log, notifs,
                   inflight, request_numbers, year, team_status, pipeline_config,
                   trigger_rules>>

InitAdvisory ==
    /\ template_steps = << << >>, KoOnlySteps >>
    /\ requests = [r \in RequestIds |-> NewRequest(None, None)]
    /\ steps = << >>
    /\ nextStepId = 1
    /\ log = [r \in RequestIds |-> << >>]
    /\ notifs = [r \in RequestIds |-> << >>]
    /\ last = NoCall
    /\ inflight = [c \in Callers |-> Idle]
    /\ request_numbers = << >>
    /\ year = FirstYear
    /\ advisories = << >>
    /\ team_status = [r \in RequestIds |-> [t \in StatusTeams |-> None]]
    /\ pipeline_config = [c \in ConfigCells |-> TRUE]
    /\ trigger_rules \in RuleTables

NextAdvisory ==
    \/ \E r \in RequestIds, d \in DerivedResults : CompleteIntake(r, d)
    \/ \E id \in DOMAIN advisories, data \in SubmitPayloads : SubmitAdvisory(id, data)
    \/ \E id \in DOMAIN advisories, data \in UpdatePayloads : UpdateAdvisory(id, data)

SpecAdvisory == InitAdvisory /\ [][NextAdvisory]_vars

\* PUT /advisory-config: an item names a cell by id and may carry is_enabled
ConfigItem(cell, keys, is_enabled) == [id |-> cell, keys |-> keys, is_enabled |-> is_enabled]

UnknownCell == <<"full", "none">>

ConfigPayloads ==
    {<< >>} \cup {<< ConfigItem(c, k, b) >> :
                     c \in ConfigCells \cup {UnknownCell}, k \in {{}, {"is_enabled"}},
                     b \in BOOLEAN}

RECURSIVE update_advisory_config(_, _)
update_advisory_config(config, items) ==
    IF Len(items) = 0 THEN config
    ELSE LET item == Head(items)
             next == IF item.id \in DOMAIN config /\ "is_enabled" \in item.keys
                     THEN [config EXCEPT ![item.id] = item.is_enabled]
                     ELSE config
         IN  update_advisory_config(next, Tail(items))

UpdateAdvisoryConfig(items) ==
    /\ pipeline_config' = update_advisory_config(pipeline_config, items)
    /\ last' = Call("update_advisory_config", 0, None, Ok)
    /\ UNCHANGED <<template_steps, requests, steps, nextStepId, log, notifs,
                   inflight, request_numbers, year, advisories, team_status,
                   trigger_rules>>

NextConfig ==
    \/ \E r \in RequestIds, d \in DerivedResults : CompleteIntake(r, d)
    \/ \E items \in ConfigPayloads : UpdateAdvisoryConfig(items)

SpecConfig == InitAdvisory /\ [][NextConfig]_vars

\* ------------------------------------------------------- advisory claims
CompletedStatuses == {"complete_no_issues", "complete_issues_found", "waived"}

OpenStatuses == {"requested", "in_review", "info_requested"}

\* the rows the step just taken has added
NewAdvisories == SubSeq(advisories', Len(advisories) + 1, Len(advisories'))

\* the teams a trigger-code string names
NamedTeams(advisory_triggers) ==
    IF ~advisory_triggers.given \/ is_none_text(advisory_triggers.parts) THEN {}
    ELSE {CodeTeam(strip_upper(advisory_triggers.parts[i])) :
             i \in DOMAIN advisory_triggers.parts} \ {None}

\* C21: whatever intake completions have run, a request has at most one
\* AdvisoryInput row per team.
C21_OneAdvisoryPerTeam ==
    \A i, j \in DOMAIN advisories :
       (advisories[i].request_id = advisories[j].request_id
          /\ advisories[i].team = advisories[j].team) => i = j

\* C22: an advisory whose status is 'complete_no_issues',
\* 'complete_issues_found' or 'waived' is never moved back to 'requested',
\* 'in_review' or 'info_requested'.
C22_CompletedStaysCompleted ==
    [][\A i \in DOMAIN advisories :
          advisories[i].status \in CompletedStatuses
             => advisories'[i].status \notin OpenStatuses]_vars

\* C23: with the AdvisoryTriggerRule table unavailable, complete_intake
\* succeeds and adds exactly one 'requested' AdvisoryInput, with the team's
\* default gate, for every team the trigger codes name.
C23_CodesFireWithoutRuleTable ==
    [][(last'.op = "complete_intake" /\ ~trigger_rules.available) =>
         /\ last'.result.ok
         /\ \E d \in DerivedResults :
               /\ requests'[last'.request_id] = apply_derived(requests[last'.request_id], d)
               /\ {NewAdvisories[i].team : i \in DOMAIN NewAdvisories}
                     = NamedTeams(d.advisory_triggers)
               /\ Len(NewAdvisories) = Cardinality(NamedTeams(d.advisory_triggers))
         /\ \A i \in DOMAIN NewAdvisories :
               /\ NewAdvisories[i].request_id = last'.request_id
               /\ NewAdvisories[i].status = "requested"
               /\ NewAdvisories[i].blocks_gate = DefaultGate(NewAdvisories[i].team)]_vars

C23_Witness ==
    /\ last.op = "complete_intake"
    /\ ~trigger_rules.available
    /\ {advisories[i].team : i \in DOMAIN advisories} = {"scrm", "fm"}

\* C24: intake completion creates no AdvisoryInput for a team whose matrix
\* cell for the request's derived pipeline has is_enabled = false.
C24_DisabledCellDoesNotFire ==
    [][last'.op = "complete_intake" =>
         \A i \in DOMAIN NewAdvisories :
            LET cell == <<requests'[last'.request_id].derived_pipeline, NewAdvisories[i].team>>
            IN  cell \in ConfigCells => pipeline_config[cell]]_vars

\* C27: for each team with a status field, the request's <team>_status
\* equals the status of that request's AdvisoryInput for the team.
C27_TeamStatusMatchesAdvisory ==
    \A i \in DOMAIN advisories :
       advisories[i].team \in StatusTeams
          => team_status[advisories[i].request_id][advisories[i].team] = advisories[i].status

\* ------------------------------------------------------- editing a request
\* the updatable list of update_request
Updatable ==
    {"title", "description", "estimated_value", "fiscal_year", "priority",
     "need_by_date", "notes", "requestor_name", "requestor_org",
     "existing_contract_number", "existing_contract_vendor", "existing_contract_value",
     "existing_contract_end_date", "existing_contract_vehicle",
     "options_remaining", "current_option_year", "cpars_rating",
     "awarded_date", "awarded_vendor", "awarded_amount", "po_number"}

EditPayloads ==
    { NoData,
      {<<"priority", "high">>},
      {<<"status", "approved">>},
      {<<"priority", "high">>, <<"status", "draft">>, <<"derived_tier", "micro">>},
      {<<"derived_pipeline", "ko_only">>, <<"derived_acquisition_type", "micro_purchase">>} }

\* variant: every key of the payload is written
update_request_any_field(request, data) ==
    [f \in DOMAIN request |-> dict_get(data, f, request[f])]

update_request(request, data) ==
    [f \in DOMAIN request |->
        IF f \in Updatable THEN dict_get(data, f, request[f]) ELSE request[f]]

UpdateRequest(request_id, data) ==
    /\ IF data = NoData
       THEN /\ last' = Call("update_request", 0, None, Err("No data provided"))
            /\ UNCHANGED requests
       ELSE /\ requests' = [requests EXCEPT ![request_id] = update_request(@, data)]
            /\ last' = Call("update_request", request_id, None, Ok)
    /\ UNCHANGED <<template_steps, steps, nextStepId, log, notifs, inflight,
                   request_numbers, year, AdvisoryVars>>

InitEdit ==
    /\ template_steps =
          << << Numbered(TStep("ISS", "branch_chief", 5, TRUE, FALSE, NoRule), 1) >>,
             KoOnlySteps >>
    /\ requests = [r \in RequestIds |-> NewRequest(None, None)]
    /\ steps = << >>
    /\ nextStepId = 1
    /\ log = [r \in RequestIds |-> << >>]
    /\ notifs = [r \in RequestIds |-> << >>]
    /\ last = NoCall
    /\ inflight = [c \in Callers |-> Idle]
    /\ request_numbers = << >>
    /\ year = FirstYear
    /\ NoAdvisoryState

\* derivations that name no advisory team
QuietResults == {d \in DerivedResults : ~d.advisory_triggers.given
                                           \/ is_none_text(d.advisory_triggers.parts)}

NextEdit ==
    \/ Next
    \/ \E r \in RequestIds, data \in EditPayloads : UpdateRequest(r, data)
    \/ \E r \in RequestIds, d \in QuietResults : CompleteIntake(r, d)
    \/ \E r \in RequestIds, d \in QuietResults : Recalculate(r, d)
    \/ request_numbers = << >> /\ CreateRequest
    \/ request_numbers = << >> /\ CreateRequestFromForecast

SpecEdit == InitEdit /\ [][NextEdit]_vars

DerivedOf(request) ==
    <<request.derived_acquisition_type, request.derived_tier, request.derived_pipeline>>

\* C25: a request's status is changed only by submit_request and
\* process_approval and its derived_* fields only by complete_intake and
\* recalculate; update_request changes neither, whatever its payload; a
\* request is created with status 'draft'.
C25_StatusAndDerivedWriters ==
    [][/\ \A r \in RequestIds :
             /\ requests'[r].status # requests[r].status
                   => last'.op \in {"submit_request", "process_approval"}
             /\ DerivedOf(requests'[r]) # DerivedOf(requests[r])
                   => last'.op \in {"complete_intake", "recalculate"}
       /\ last'.op \in {"create_request", "create_request_from_forecast"}
             => last'.result.request.status = "draft"]_vars

\* an update whose payload carried 'status' and 'derived_tier' took effect on
\* the priority alone
C25_Witness ==
    /\ LastOk("update_request")
    /\ \E r \in RequestIds :
          /\ requests[r].priority = "high"
          /\ requests[r].status \notin {"draft", "approved"}
          /\ requests[r].derived_tier = "major"

\* ------------------------------------------------ approvals up to the end
\* the approver of the active step approves it
ApproveActive ==
    \E id \in DOMAIN steps : steps[id].status = "active" /\ ProcessApproval(id, "approve")

NextApprove ==
    \/ \E r \in RequestIds, k \in TemplateKeys : Submit(r, k)
    \/ ApproveActive

\* every active step is eventually acted on
SpecApprove == Init /\ [][NextApprove]_vars /\ WF_vars(ApproveActive)

NonSkipped(r) == {id \in StepsOf(steps, r) : steps[id].status # "skipped"}

\* approve calls that succeeded on the request
Approvals(r) ==
    Cardinality({i \in DOMAIN log[r] : log[r][i].activity_type = "approved"})

\* C26: after a submit that leaves k >= 1 non-skipped steps, with approvals
\* of the active step as the only actions, the request is 'approved' after
\* exactly k approvals; steps are activated in strictly increasing
\* step-number order, each non-skipped step once; and under weak fairness of
\* approval the request eventually is 'approved'.
C26_ApprovalsReachApproved ==
    /\ [](\A r \in RequestIds :
             NonSkipped(r) # {} =>
                /\ Approvals(r) = Cardinality({id \in NonSkipped(r) :
                                                  steps[id].status = "approved"})
                /\ requests[r].status = "approved"
                      <=> Approvals(r) = Cardinality(NonSkipped(r)))
    /\ [][LastApproved("approve") =>
             \A i \in ActiveStepsOf(steps, last'.request_id),
                j \in ActiveStepsOf(steps', last'.request_id) :
                /\ steps[j].status = "pending"
                /\ steps[j].step_number > steps[i].step_number
                /\ \A m \in NonSkipped(last'.request_id) :
                      steps[m].step_number < steps[j].step_number
                         => steps'[m].status = "approved"]_vars
    /\ \A r \in RequestIds :
          (ActiveStepsOf(steps, r) # {}) ~> (requests[r].status = "approved")

C26_Witness ==
    \E r \in RequestIds :
       /\ requests[r].status = "approved"
       /\ Approvals(r) = 2
       /\ \E a, b, c \in StepsOf(steps, r) :
             /\ steps[a].step_number < steps[b].step_number
             /\ steps[b].step_number < steps[c].step_number
             /\ steps[a].status = "approved"
             /\ steps[b].status = "skipped"
             /\ steps[c].status = "approved"

\* ------------------------------------------------ template administration
MaxPayload == 2
MaxStepIds == 5
NoId == 0
FullTemplate == 1
KoOnlyTemplate == 2

\* a row of the template step table
TemplateStepRow(id, n, name, role, sla, enabled) ==
    [id |-> id, step_number |-> n, step_name |-> name, approver_role |-> role,
     sla_days |-> sla, is_enabled |-> enabled]

\* an item of the 'steps' list of the request body (gate_name and
\* approver_role are read for steps added from the catalog only)
StepItem(id, enabled) ==
    [id |-> id, is_enabled |-> enabled, gate_name |-> "Custom Gate",
     approver_role |-> "cio"]

StepItems == {StepItem(id, TRUE) : id \in 0..3} \cup {StepItem(1, FALSE)}

StepPayloads == SeqsUpTo(StepItems, MaxPayload)

IdsOf(rows) == {rows[i].id : i \in DOMAIN rows}

\* the payload item names a step of this template
names_existing(sd, existing) == sd.id # NoId /\ sd.id \in existing

\* rows of the steps created for the items that name no step of the template
RECURSIVE new_steps(_, _, _, _)
new_steps(steps_data, i, existing, id) ==
    IF i > Len(steps_data) THEN << >>
    ELSE IF names_existing(steps_data[i], existing)
         THEN new_steps(steps_data, i + 1, existing, id)
         ELSE << TemplateStepRow(id, i, steps_data[i].gate_name,
                                 steps_data[i].approver_role, 5,
                                 steps_data[i].is_enabled) >>
              \o new_steps(steps_data, i + 1, existing, id + 1)

\* the rows of the template after the bulk update
update_template_steps(ts, template_id, steps_data) ==
    LET rows == ts[template_id]
        existing == IdsOf(rows)
        hits(id) == {i \in DOMAIN steps_data :
                        names_existing(steps_data[i], existing) /\ steps_data[i].id = id}
        seen_ids == {id \in existing : hits(id) # {}}
        updated == [k \in DOMAIN rows |->
                      IF rows[k].id \in seen_ids
                      THEN LET i == Max(hits(rows[k].id))
                           IN  [rows[k] EXCEPT !.step_number = i,
                                               !.is_enabled = steps_data[i].is_enabled]
                      ELSE rows[k]]
        kept == SelectSeq(updated, LAMBDA row : row.id \in seen_ids)
        next_id == Max(UNION {IdsOf(ts[t]) : t \in DOMAIN ts} \cup {0}) + 1
    IN  kept \o new_steps(steps_data, 1, existing, next_id)

UpdateTemplateSteps(template_id, steps_data) ==
    LET rows == update_template_steps(template_steps, template_id, steps_data)
    IN  /\ \A id \in IdsOf(rows) : id <= MaxStepIds
        /\ template_steps' = [template_steps EXCEPT ![template_id] = rows]
        /\ UNCHANGED <<requests, steps, nextStepId, log, notifs, last, inflight,
                       request_numbers, year, AdvisoryVars>>

InitTemplates ==
    /\ template_steps =
          << << TemplateStepRow(1, 1, "ISS", "branch_chief", 5, TRUE),
                TemplateStepRow(2, 2, "Finance", "budget", 3, TRUE) >>,
             << TemplateStepRow(3, 1, "KO Action", "ko", 5, TRUE) >> >>
    /\ requests = [r \in RequestIds |-> NewRequest(None, None)]
    /\ steps = << >>
    /\ nextStepId = 1
    /\ log = [r \in RequestIds |-> << >>]
    /\ notifs = [r \in RequestIds |-> << >>]
    /\ last = NoCall
    /\ inflight = [c \in Callers |-> Idle]
    /\ request_numbers = << >>
    /\ year = FirstYear
    /\ NoAdvisoryState

NextTemplates ==
    \E t \in {FullTemplate, KoOnlyTemplate}, p \in StepPayloads :
       UpdateTemplateSteps(t, p)

SpecTemplates == InitTemplates /\ [][NextTemplates]_vars

\* C28: after any update_template_steps call the step numbers of the
\* template's steps are exactly 1..N, N being the number of its steps.
C28_StepNumbersContiguous ==
    \A t \in DOMAIN template_steps :
       {template_steps[t][i].step_number : i \in DOMAIN template_steps[t]}
          = 1..Len(template_steps[t])

\* ------------------------------------------------ stored condition rules
\* values a condition_rule column can hold
StoredRules ==
    { NotJson, JsonNull, JsonNumber, JsonString, JsonList,
      [type |-> "object", keys |-> {"operator"}, operator |-> "in"],
      [type |-> "object", keys |-> {"field"}, field |-> "derived_tier"],
      Cmp("derived_tier", "matches"),
      CmpValue("derived_pipeline", "==", "full") }

\* the rules the condition is to be taken as true for
IrregularRules == StoredRules \ {CmpValue("derived_pipeline", "==", "full")}

InitRules ==
    /\ \E rule \in StoredRules, conditional \in BOOLEAN :
          template_steps =
             << << Numbered(TStep("ISS", "branch_chief", 5, TRUE, FALSE, NoRule), 1),
                   Numbered(TStep("Legal Review", "legal", 4, TRUE, conditional, rule), 2) >>,
                KoOnlySteps >>
    /\ \E c \in Classifications :
          requests = [r \in RequestIds |-> NewRequest(c[1], c[2])]
    /\ steps = << >>
    /\ nextStepId = 1
    /\ log = [r \in RequestIds |-> << >>]
    /\ notifs = [r \in RequestIds |-> << >>]
    /\ last = NoCall
    /\ inflight = [c \in Callers |-> Idle]
    /\ request_numbers = << >>
    /\ year = FirstYear
    /\ NoAdvisoryState

SpecRules == InitRules /\ [][Next]_vars

\* C29: evaluating a conditional step never makes submit_request fail with
\* an unhandled exception; for a stored condition_rule that is not JSON, is
\* JSON but no object, lacks field or operator, or names an unknown operator,
\* the condition is true and the step is an ordinary pending step.
C29_ConditionNeverRaises ==
    /\ last.op = "submit_request" => last.result.error # ConditionRaised
    /\ LastOk("submit_request") =>
          \A id \in StepsOf(steps, last.request_id) :
             TemplateStepOf(last.result.template, steps[id].step_number).condition_rule
                \in IrregularRules => steps[id].status = "pending"

\* ------------------------------------------------ interleaved creations
IntegrityError == "IntegrityError"
NoNumber == << >>

\* a creation being served: idle, or holding the number it generated and not
\* yet flushed
NotCreating == [pc |-> "idle", step_id |-> NoStep, action |-> None,
                request_number |-> NoNumber]

Creations == {"create_request", "create_request_from_forecast"}

\* variant: the request_number column accepts any value
unique_request_number_unconstrained(rows, number) == TRUE

\* the request_number column is unique: the insert of a stored number fails
unique_request_number(rows, number) ==
    \A i \in DOMAIN rows : rows[i] # number

NumbersHeld ==
    Cardinality({c \in Callers : inflight[c].pc = "numbered"})

\* the handler reads the last number of the year and builds the new request
BeginCreate(c, op) ==
    LET number == generate_request_number(request_numbers, year)
    IN  /\ inflight[c].pc = "idle"
        /\ Len(request_numbers) + NumbersHeld < MaxRows
        /\ int(number[3]) <= MaxSeq
        /\ inflight' = [inflight EXCEPT ![c] =
                           [pc |-> "numbered", step_id |-> NoStep, action |-> op,
                            request_number |-> number]]
        /\ UNCHANGED <<template_steps, requests, steps, nextStepId, log, notifs, last,
                       request_numbers, year, AdvisoryVars>>

\* db.session.flush() and db.session.commit(): the row is stored, or the
\* insert is rejected and the handler ends with the exception
FinishCreate(c) ==
    LET number == inflight[c].request_number
        op == inflight[c].action
    IN  /\ inflight[c].pc = "numbered"
        /\ inflight' = [inflight EXCEPT ![c] = NotCreating]
        /\ IF unique_request_number(request_numbers, number)
           THEN /\ request_numbers' = Append(request_numbers, number)
                /\ last' = Created(op, number)
           ELSE /\ request_numbers' = request_numbers
                /\ last' = [op |-> op, request_id |-> 0, action |-> None,
                            result |-> Err(IntegrityError)]
        /\ UNCHANGED <<template_steps, requests, steps, nextStepId, log, notifs,
                       year, AdvisoryVars>>

InitCreate ==
    /\ template_steps = << << >>, KoOnlySteps >>
    /\ requests = [r \in RequestIds |-> NewRequest(None, "micro")]
    /\ steps = << >>
    /\ nextStepId = 1
    /\ log = [r \in RequestIds |-> << >>]
    /\ notifs = [r \in RequestIds |-> << >>]
    /\ last = NoCall
    /\ inflight = [c \in Callers |-> NotCreating]
    /\ request_numbers = << >>
    /\ year = FirstYear
    /\ NoAdvisoryState

NextCreate ==
    \/ \E c \in Callers, op \in Creations : BeginCreate(c, op)
    \/ \E c \in Callers : FinishCreate(c)
    \/ \E i \in DOMAIN request_numbers : DeleteRequest(i)
    \/ NewYear

SpecCreate == InitCreate /\ [][NextCreate]_vars

====
